---- MODULE Spec2Model ----
(***************************************************************************)
(* Model of Patients_WebApp: the appointment synchronisation job           *)
(* services/appointmentSync (syncAppointments, startAutoSync), the hook    *)
(* useAppointmentSync that schedules it, the session of contexts/          *)
(* AuthContext and the dashboard hook useGoogleSheets.                     *)
(*                                                                         *)
(* Strings are sequences of one-character strings, so that toLowerCase,    *)
(* trim, toString and parseInt are computed rather than assumed.           *)
(* One action is one JavaScript task: the code that runs from the arrival  *)
(* of a response (or from a call) up to the next await on a fetch.  A      *)
(* remote request is served and answered in the same step; an error        *)
(* response leaves the remote sheet unchanged.                             *)
(***************************************************************************)
EXTENDS Integers, Sequences, FiniteSets, TLC

VARIABLES
    localStorage,   \* value stored under last_processed_appointment_row
    apiKey,         \* whether VITE_GOOGLE_SHEETS_API_KEY is configured
    master,         \* rows of the main appointments sheet, row 1 = header
    userSheets,     \* rows of every user sheet, row 1 = header
    runs,           \* the syncAppointments invocations, in order of start
    hist,           \* per run: history of what it did (observation only)
    copies,         \* per master row index: number of successful PUTs of it
    mounted,        \* useAppointmentSync is mounted
    enabled,        \* the enabled option of the mounted hook
    intervals,      \* ids of the active setInterval timers
    nextIntervalId, \* id the next setInterval returns
    cleanupRef,     \* cleanupRef.current: the interval the cleanup clears
    cancelled,      \* ids of the intervals whose cancel handle was invoked
    auth,           \* AuthProvider: its state, the stored session, its calls
    probe,          \* one row and one directory put through the resolver
    dashboard       \* useGoogleSheets: its state, the sheet it shows, its calls

syncVars == <<localStorage, apiKey, master, userSheets, runs, hist, copies,
              mounted, enabled, intervals, nextIntervalId, cleanupRef, cancelled>>

vars == <<localStorage, apiKey, master, userSheets, runs, hist, copies,
          mounted, enabled, intervals, nextIntervalId, cleanupRef, cancelled,
          auth, probe, dashboard>>

----------------------------------------------------------------------------
(* Bounds *)

MaxRows == 2        \* data rows the master sheet can hold
MaxRuns == 3        \* syncAppointments invocations in one behaviour
MaxInFlight == 2    \* runs in flight at the same time
MaxIdleRuns == 5    \* invocations in one behaviour when no API key is set
MaxFailures == 1    \* failing remote responses in one behaviour
MaxDirectory == 2   \* rows of a users sheet put through the resolver
MaxCalls == 2       \* login and register calls in one behaviour
MaxClock == 1       \* readings of Date.now() that differ from the first
MaxUpdates == 2     \* updateStatus calls in one behaviour
MaxFetches == 2     \* fetchAppointments calls in one behaviour
MaxShown == 2       \* data rows of the user sheet the dashboard shows

----------------------------------------------------------------------------
(* Strings *)

NULL == <<"null">>          \* localStorage.getItem of an absent key; no sheet
NoInterval == 0

Digits == <<"0", "1", "2", "3", "4", "5", "6", "7", "8", "9">>

LowerChar(c) ==
    CASE c = "A" -> "a"
      [] c = "B" -> "b"
      [] c = "C" -> "c"
      [] OTHER -> c

toLowerCase(s) == [i \in DOMAIN s |-> LowerChar(s[i])]

RECURSIVE trimStart(_)
trimStart(s) ==
    IF s # <<>> /\ Head(s) = " " THEN trimStart(Tail(s)) ELSE s

RECURSIVE trimEnd(_)
trimEnd(s) ==
    IF s # <<>> /\ s[Len(s)] = " " THEN trimEnd(SubSeq(s, 1, Len(s) - 1)) ELSE s

trim(s) == trimEnd(trimStart(s))

RECURSIVE toString(_)
toString(n) ==
    IF n < 10 THEN <<Digits[n + 1]>>
    ELSE toString(n \div 10) \o <<Digits[(n % 10) + 1]>>

DigitValue(c) == CHOOSE d \in 0..9 : Digits[d + 1] = c

RECURSIVE parseInt(_)
parseInt(s) ==
    IF Len(s) = 1 THEN DigitValue(s[1])
    ELSE 10 * parseInt(SubSeq(s, 1, Len(s) - 1)) + DigitValue(s[Len(s)])

----------------------------------------------------------------------------
(* Remote data *)

SheetS == <<"S">>           \* spreadsheet id of the one user sheet
SheetIds == {SheetS}

\* Rows of the users sheet, range Sheet1!A2:C (email, password, sheet id).
\* The second entry has a sheet cell that is blank after trim.
UsersSheet ==
    << [email |-> <<"A">>, password |-> <<"p">>, sheet |-> SheetS],
       [email |-> <<"c">>, password |-> <<"q">>, sheet |-> <<" ">>] >>

HeaderRow == [patientName |-> <<"N">>, email |-> <<"E">>]

\* Rows that can be added to the master sheet (columns A and B):
\* an email matching the directory up to case and blanks, an email with no
\* directory entry, and a row without patient name.
RowKinds ==
    { [patientName |-> <<"P">>, email |-> <<" ", "a">>],
      [patientName |-> <<"P">>, email |-> <<"b">>],
      [patientName |-> <<>>,    email |-> <<"A">>] }

----------------------------------------------------------------------------
(* services/appointmentSync *)

extractSpreadsheetId(url) ==
    IF url = <<>> THEN NULL ELSE url      \* ids in the model hold no "/"

\* A watermark that starts before the header row
getLastProcessedRowFromZero(ls) ==
    IF ls # NULL /\ ls # <<>> THEN parseInt(ls) ELSE 0

getLastProcessedRow(ls) ==
    IF ls # NULL /\ ls # <<>> THEN parseInt(ls) ELSE 1

setLastProcessedRow(ls, rowNumber) == toString(rowNumber)

RECURSIVE SetAll(_, _, _)
SetAll(rows, i, m) ==
    IF i > Len(rows) THEN m
    ELSE LET row == rows[i]
             key == trim(toLowerCase(row.email))
         IN  IF row.email # <<>> /\ row.sheet # <<>>
             THEN SetAll(rows, i + 1,
                         [k \in DOMAIN m \cup {key} |->
                             IF k = key THEN trim(row.sheet) ELSE m[k]])
             ELSE SetAll(rows, i + 1, m)

RECURSIVE SetAllExact(_, _, _)
SetAllExact(rows, i, m) ==
    IF i > Len(rows) THEN m
    ELSE LET row == rows[i]
             key == trim(row.email)
         IN  IF row.email # <<>> /\ row.sheet # <<>>
             THEN SetAllExact(rows, i + 1,
                              [k \in DOMAIN m \cup {key} |->
                                  IF k = key THEN trim(row.sheet) ELSE m[k]])
             ELSE SetAllExact(rows, i + 1, m)

\* A users map keyed by the email as written, without toLowerCase
usersMapOfExact(rows) == SetAllExact(rows, 1, <<>>)

\* fetchUsersMap, from the rows of a successful response
usersMapOf(rows) == SetAll(rows, 1, <<>>)

\* usersMap.get(email): NULL stands for undefined
MapGet(m, k) == IF k \in DOMAIN m THEN m[k] ELSE NULL

\* Row numbers taken from the position in the filtered list
parseAppointmentsFilterFirst(rows, startRow) ==
    LET Keep(row) == trim(toLowerCase(row.email)) # <<>> /\ row.patientName # <<>>
        kept == SelectSeq(rows, Keep)
    IN  [i \in DOMAIN kept |->
           [rowIndex    |-> startRow + (i - 1),
            patientName |-> kept[i].patientName,
            email       |-> trim(toLowerCase(kept[i].email))]]

\* fetchNewAppointments, from the rows of a successful response
parseAppointments(rows, startRow) ==
    LET mapped == [i \in DOMAIN rows |->
                     [rowIndex    |-> startRow + (i - 1),
                      patientName |-> rows[i].patientName,
                      email       |-> trim(toLowerCase(rows[i].email))]]
        Keep(apt) == apt.email # <<>> /\ apt.patientName # <<>>
    IN  SelectSeq(mapped, Keep)

\* The rows the API returns for the range Sheet1!A<startRow>:G
valuesFrom(sheet, startRow) ==
    IF startRow > Len(sheet) THEN <<>> ELSE SubSeq(sheet, startRow, Len(sheet))

ZeroStats == [processed |-> 0, synced |-> 0, errors |-> 0]

\* syncAppointments from its call to its first await
newRun(ls, key) ==
    IF ~key
    THEN [pc |-> "resolved", startRow |-> 0, scanned |-> <<>>, usersMap |-> <<>>,
          idx |-> 0, target |-> NULL, nextRow |-> 0, stats |-> ZeroStats,
          error |-> "none"]
    ELSE [pc |-> "fetchMaster", startRow |-> getLastProcessedRow(ls) + 1,
          scanned |-> <<>>, usersMap |-> <<>>,
          idx |-> 0, target |-> NULL, nextRow |-> 0, stats |-> ZeroStats,
          error |-> "none"]

\* A row without user counted as synced instead of as an error
noUserFoundAsSynced(r) ==
    [r EXCEPT !.stats.synced = @ + 1, !.idx = @ + 1]

\* "if (!userSpreadsheetId) { stats.errors++; continue; }"
noUserFound(r) ==
    [r EXCEPT !.stats.errors = @ + 1, !.idx = @ + 1]

\* The for loop from the row at r.idx up to the next await: rows without a
\* target sheet are counted and skipped, the first row with one issues the
\* row-count read of appendAppointmentToUserSheet.
RECURSIVE forLoop(_)
forLoop(r) ==
    IF r.idx > Len(r.scanned) THEN [r EXCEPT !.pc = "resolved"]
    ELSE LET counted == [r EXCEPT !.stats.processed = @ + 1]
             userSpreadsheetId == MapGet(r.usersMap, r.scanned[r.idx].email)
         IN  IF userSpreadsheetId = NULL \/ userSpreadsheetId = <<>>
             THEN forLoop(noUserFound(counted))
             ELSE [counted EXCEPT !.pc = "check",
                                  !.target = extractSpreadsheetId(userSpreadsheetId)]

\* An outer catch that swallows the error and returns the counts
abortRunSwallowed(r, which) == [r EXCEPT !.pc = "resolved"]

\* A rejected fetchNewAppointments or fetchUsersMap: the outer catch rethrows
abortRun(r, which) == [r EXCEPT !.pc = "rejected", !.error = which]

\* The continuation without "if (newAppointments.length === 0) return stats"
afterFetchNewAppointmentsAlwaysOn(r, rows) ==
    [r EXCEPT !.pc = "fetchUsers", !.scanned = parseAppointments(rows, r.startRow)]

\* Continuation of "await fetchNewAppointments()"
afterFetchNewAppointments(r, rows) ==
    LET newAppointments == parseAppointments(rows, r.startRow)
    IN  IF Len(newAppointments) = 0
        THEN [r EXCEPT !.pc = "resolved"]
        ELSE [r EXCEPT !.pc = "fetchUsers", !.scanned = newAppointments]

\* Continuation of "await fetchUsersMap()"
afterFetchUsersMap(r, rows) ==
    forLoop([r EXCEPT !.usersMap = usersMapOf(rows), !.idx = 1])

\* appendAppointmentToUserSheet after its row-count read succeeded
afterCheck(r, existingRows) ==
    [r EXCEPT !.pc = "put", !.nextRow = Len(existingRows) + 1]

\* The PUT of one row at a given row number of a sheet
putRow(sheet, n, row) ==
    IF n <= Len(sheet) THEN [sheet EXCEPT ![n] = row] ELSE Append(sheet, row)

\* The append without its "stats.synced++"
appendSucceededUncounted(r) == r

\* "stats.synced++" after the awaited append
appendSucceeded(r) == [r EXCEPT !.stats.synced = @ + 1]

\* The per-row catch: "stats.errors++"
appendFailed(r) == [r EXCEPT !.stats.errors = @ + 1]

\* "setLastProcessedRow(appointment.rowIndex)" at the end of the loop body
updateLastProcessedRow(ls, r) ==
    setLastProcessedRow(ls, r.scanned[r.idx].rowIndex)

\* A loop that takes the same row again
nextIterationSameRow(r) == forLoop([r EXCEPT !.target = NULL, !.nextRow = 0])

\* End of the loop body and on to the next row
nextIteration(r) == forLoop([r EXCEPT !.idx = @ + 1, !.target = NULL, !.nextRow = 0])

----------------------------------------------------------------------------
(* History of a run, kept beside the run for the properties only *)

InFlight(r) == r.pc \notin {"resolved", "rejected"}

Ended(r) == ~InFlight(r)

newHist(rs, r, ls) ==
    [origin       |-> "call",
     timer        |-> NoInterval,
     lsAtStart    |-> ls,
     overlapped   |-> InFlight(r) /\ \E k \in DOMAIN rs : InFlight(rs[k]),
     startedAfter |-> {k \in DOMAIN rs : Ended(rs[k])},
     scanLen      |-> 0,
     requests     |-> <<>>,
     results      |-> <<>>,
     puts         |-> 0,
     writes       |-> 0,
     failedFetch  |-> "none",
     wmAtEnd      |-> IF Ended(r) THEN getLastProcessedRow(ls) ELSE 0]

\* One more request to a user sheet for the row a run is now waiting on
noteRequest(h, r) ==
    IF r.pc \in {"check", "put"}
    THEN [h EXCEPT !.requests[r.idx] = @ + 1]
    ELSE h

\* The watermark as a run leaves it when it ends
noteEnd(h, r, ls) ==
    IF Ended(r) THEN [h EXCEPT !.wmAtEnd = getLastProcessedRow(ls)] ELSE h

RECURSIVE failuresIn(_, _)
failuresIn(hs, k) ==
    IF k > Len(hs) THEN 0
    ELSE (IF hs[k].failedFetch # "none" THEN 1 ELSE 0)
         + Cardinality({j \in DOMAIN hs[k].results : hs[k].results[j] = "fail"})
         + failuresIn(hs, k + 1)

\* The remote service answers with an error at most MaxFailures times
MayAnswer(ok) == ok \/ failuresIn(hist, 1) < MaxFailures

----------------------------------------------------------------------------
(* Initial state *)

\* No row is in the resolver
NoProbe == [pc |-> "none"]

\* useGoogleSheets is not in use
NoDashboard == [pc |-> "none"]

\* AuthProvider before it is rendered
NoAuth == [pc |-> "none"]

InitSync ==
    /\ localStorage = NULL
    /\ apiKey \in BOOLEAN
    /\ master = <<HeaderRow>>
    /\ userSheets = [s \in SheetIds |-> <<HeaderRow>>]
    /\ runs = <<>>
    /\ hist = <<>>
    /\ copies = [n \in 1..(1 + MaxRows) |-> 0]
    /\ mounted = FALSE
    /\ enabled = FALSE
    /\ intervals = {}
    /\ nextIntervalId = 1
    /\ cleanupRef = NoInterval
    /\ cancelled = {}

Init ==
    /\ InitSync
    /\ auth = NoAuth
    /\ probe = NoProbe
    /\ dashboard = NoDashboard

----------------------------------------------------------------------------
(* Starting runs *)

\* Room for n more calls of syncAppointments within the bounds
MayStart(n) ==
    /\ Len(runs) + n <= (IF apiKey THEN MaxRuns ELSE MaxIdleRuns)
    /\ Cardinality({k \in DOMAIN runs : InFlight(runs[k])}) + n <= MaxInFlight

\* The runs and histories after one more call of syncAppointments
started(pair) ==
    LET r == newRun(localStorage, apiKey)
        h == newHist(pair.runs, r, localStorage)
    IN  [runs |-> Append(pair.runs, r),
         hist |-> Append([k \in DOMAIN pair.hist |->
                            IF InFlight(pair.runs[k]) /\ InFlight(r)
                            THEN [pair.hist[k] EXCEPT !.overlapped = TRUE]
                            ELSE pair.hist[k]], h)]

\* The same, with the caller of syncAppointments noted in the history
startedBy(pair, origin, timer) ==
    LET p == started(pair)
    IN  [p EXCEPT !.hist[Len(p.hist)].origin = origin,
                  !.hist[Len(p.hist)].timer = timer]

current == [runs |-> runs, hist |-> hist]

\* startAutoSync without its initial sync
startAutoSyncTimerOnly == current

\* startAutoSync: one run at once, then one per tick of the new interval
startAutoSync == startedBy(current, "auto", nextIntervalId)

\* A cancel handle that leaves the interval running
clearIntervalKept(ivs, id) == ivs

\* The handle startAutoSync returns: clearInterval(intervalId)
clearInterval(ivs, id) == ivs \ {id}

\* An effect without cleanup
effectCleanupMissing(ivs, en, ref) == [intervals |-> ivs, invoked |-> {}]

\* The cleanup the effect returned when it ran with enabled = en:
\* "if (cleanupRef.current) cleanupRef.current()"; none when en is false
effectCleanup(ivs, en, ref) ==
    IF en /\ ref # NoInterval
    THEN [intervals |-> clearInterval(ivs, ref), invoked |-> {ref}]
    ELSE [intervals |-> ivs, invoked |-> {}]

\* An effect that ignores the enabled option
effectAlways(en, ivs) ==
    /\ enabled' = en
    /\ MayStart(2)
    /\ LET both == startedBy(startAutoSync, "hook", NoInterval)
       IN  /\ runs' = both.runs
           /\ hist' = both.hist
    /\ intervals' = ivs \cup {nextIntervalId}
    /\ cleanupRef' = nextIntervalId
    /\ nextIntervalId' = nextIntervalId + 1

\* The body of the effect of useAppointmentSync, run with enabled = en
\* when ivs are the active intervals
effect(en, ivs) ==
    /\ enabled' = en
    /\ IF en
       THEN /\ MayStart(2)
            /\ LET both == startedBy(startAutoSync, "hook", NoInterval)
               IN  /\ runs' = both.runs
                   /\ hist' = both.hist
            /\ intervals' = ivs \cup {nextIntervalId}
            /\ cleanupRef' = nextIntervalId
            /\ nextIntervalId' = nextIntervalId + 1
       ELSE /\ intervals' = ivs
            /\ UNCHANGED <<runs, hist, cleanupRef, nextIntervalId>>

\* useAppointmentSync, the effect of a mount
Mount(en) ==
    /\ ~mounted
    /\ mounted' = TRUE
    /\ effect(en, intervals)
    /\ UNCHANGED <<localStorage, apiKey, master, userSheets, copies, cancelled,
                   auth, probe, dashboard>>

\* The effect runs again because enabled, intervalMs or onSyncComplete
\* changed: the cleanup of the previous effect, then the effect
Rerun(en) ==
    /\ mounted
    /\ LET c == effectCleanup(intervals, enabled, cleanupRef)
       IN  /\ effect(en, c.intervals)
           /\ cancelled' = cancelled \cup c.invoked
    /\ UNCHANGED <<localStorage, apiKey, master, userSheets, copies, mounted,
                   auth, probe, dashboard>>

\* The cleanup of the effect, on unmount
Unmount ==
    /\ mounted
    /\ mounted' = FALSE
    /\ LET c == effectCleanup(intervals, enabled, cleanupRef)
       IN  /\ intervals' = c.intervals
           /\ cancelled' = cancelled \cup c.invoked
    /\ UNCHANGED <<localStorage, apiKey, master, userSheets, runs, hist, copies,
                   enabled, nextIntervalId, cleanupRef, auth, probe, dashboard>>

\* A tick at which a guard against overlap skips the run
TickUnlessBusy(id) ==
    /\ id \in intervals
    /\ \A k \in DOMAIN runs : Ended(runs[k])
    /\ MayStart(1)
    /\ LET one == startedBy(current, "tick", id)
       IN  /\ runs' = one.runs
           /\ hist' = one.hist
    /\ UNCHANGED <<localStorage, apiKey, master, userSheets, copies,
                   mounted, enabled, intervals, nextIntervalId, cleanupRef,
                   cancelled, auth, probe, dashboard>>

\* The setInterval callback of startAutoSync, for the interval id
Tick(id) ==
    /\ id \in intervals
    /\ MayStart(1)
    /\ LET one == startedBy(current, "tick", id)
       IN  /\ runs' = one.runs
           /\ hist' = one.hist
    /\ UNCHANGED <<localStorage, apiKey, master, userSheets, copies,
                   mounted, enabled, intervals, nextIntervalId, cleanupRef,
                   cancelled, auth, probe, dashboard>>

\* manualSync of the hook
ManualSync ==
    /\ mounted
    /\ MayStart(1)
    /\ LET one == startedBy(current, "manual", NoInterval)
       IN  /\ runs' = one.runs
           /\ hist' = one.hist
    /\ UNCHANGED <<localStorage, apiKey, master, userSheets, copies,
                   mounted, enabled, intervals, nextIntervalId, cleanupRef,
                   cancelled, auth, probe, dashboard>>

\* Somebody adds a row to the master sheet
AddMasterRow(row) ==
    /\ Len(master) < 1 + MaxRows
    /\ master' = Append(master, row)
    /\ UNCHANGED <<localStorage, apiKey, userSheets, runs, hist, copies,
                   mounted, enabled, intervals, nextIntervalId, cleanupRef,
                   cancelled, auth, probe, dashboard>>

----------------------------------------------------------------------------
(* The tasks of a run: one per response *)

\* The loop body after the awaited append of the row at r.idx returned
rowSynced(r, ls) ==
    [run |-> nextIteration(appendSucceeded(r)),
     ls  |-> updateLastProcessedRow(ls, r)]

\* A loop body without the per-row try/catch: the throw ends the run
rowFailedUncaught(r, ls) ==
    [run |-> [r EXCEPT !.pc = "rejected", !.error = "append"], ls |-> ls]

\* The loop body after the append of the row at r.idx threw
rowFailed(r, ls) ==
    [run |-> nextIteration(appendFailed(r)),
     ls  |-> updateLastProcessedRow(ls, r)]

\* The row appendAppointmentToUserSheet sends in its PUT
valuesOf(appointment) ==
    [patientName |-> appointment.patientName, email |-> appointment.email]

finish(i, r2, h2, ls2) ==
    /\ runs' = [runs EXCEPT ![i] = r2]
    /\ hist' = [hist EXCEPT ![i] = noteEnd(noteRequest(h2, r2), r2, ls2)]
    /\ localStorage' = ls2

\* Response to the read of the master sheet
MasterResponse(i, ok) ==
    /\ runs[i].pc = "fetchMaster"
    /\ MayAnswer(ok)
    /\ IF ok
       THEN LET r2 == afterFetchNewAppointments(runs[i],
                                                valuesFrom(master, runs[i].startRow))
                h2 == [hist[i] EXCEPT
                         !.scanLen  = Len(master),
                         !.requests = [j \in DOMAIN r2.scanned |-> 0],
                         !.results  = [j \in DOMAIN r2.scanned |-> "none"]]
            IN  finish(i, r2, h2, localStorage)
       ELSE finish(i, abortRun(runs[i], "master"),
                   [hist[i] EXCEPT !.failedFetch = "master"], localStorage)
    /\ UNCHANGED <<apiKey, master, userSheets, copies,
                   mounted, enabled, intervals, nextIntervalId, cleanupRef,
                   cancelled, auth, probe, dashboard>>

\* Response to the read of the users sheet
UsersResponse(i, ok) ==
    /\ runs[i].pc = "fetchUsers"
    /\ MayAnswer(ok)
    /\ IF ok
       THEN finish(i, afterFetchUsersMap(runs[i], UsersSheet), hist[i], localStorage)
       ELSE finish(i, abortRun(runs[i], "users"),
                   [hist[i] EXCEPT !.failedFetch = "users"], localStorage)
    /\ UNCHANGED <<apiKey, master, userSheets, copies,
                   mounted, enabled, intervals, nextIntervalId, cleanupRef,
                   cancelled, auth, probe, dashboard>>

\* Response to the row-count read of appendAppointmentToUserSheet
CheckResponse(i, ok) ==
    /\ runs[i].pc = "check"
    /\ MayAnswer(ok)
    /\ IF ok
       THEN finish(i, afterCheck(runs[i], userSheets[runs[i].target]),
                   hist[i], localStorage)
       ELSE LET res == rowFailed(runs[i], localStorage)
                h2  == [hist[i] EXCEPT
                          !.results[runs[i].idx] = "fail",
                          !.writes = @ + (IF res.ls # localStorage THEN 1 ELSE 0)]
            IN  finish(i, res.run, h2, res.ls)
    /\ UNCHANGED <<apiKey, master, userSheets, copies,
                   mounted, enabled, intervals, nextIntervalId, cleanupRef,
                   cancelled, auth, probe, dashboard>>

\* Response to the PUT of appendAppointmentToUserSheet
PutResponse(i, ok) ==
    /\ runs[i].pc = "put"
    /\ MayAnswer(ok)
    /\ LET r   == runs[i]
           res == IF ok THEN rowSynced(r, localStorage)
                        ELSE rowFailed(r, localStorage)
           h2  == [hist[i] EXCEPT
                     !.results[r.idx] = IF ok THEN "ok" ELSE "fail",
                     !.puts = @ + (IF ok THEN 1 ELSE 0),
                     !.writes = @ + (IF res.ls # localStorage THEN 1 ELSE 0)]
       IN  /\ finish(i, res.run, h2, res.ls)
           /\ userSheets' =
                IF ok
                THEN [userSheets EXCEPT
                        ![r.target] = putRow(@, r.nextRow, valuesOf(r.scanned[r.idx]))]
                ELSE userSheets
           /\ copies' =
                IF ok
                THEN [copies EXCEPT ![r.scanned[r.idx].rowIndex] = @ + 1]
                ELSE copies
    /\ UNCHANGED <<apiKey, master, mounted, enabled, intervals, nextIntervalId,
                   cleanupRef, cancelled, auth, probe, dashboard>>

----------------------------------------------------------------------------
(* Specification *)

Next ==
    \/ \E en \in BOOLEAN : Mount(en)
    \/ \E en \in BOOLEAN : Rerun(en)
    \/ Unmount
    \/ \E id \in intervals : Tick(id)
    \/ ManualSync
    \/ \E row \in RowKinds : AddMasterRow(row)
    \/ \E i \in DOMAIN runs, ok \in BOOLEAN : MasterResponse(i, ok)
    \/ \E i \in DOMAIN runs, ok \in BOOLEAN : UsersResponse(i, ok)
    \/ \E i \in DOMAIN runs, ok \in BOOLEAN : CheckResponse(i, ok)
    \/ \E i \in DOMAIN runs, ok \in BOOLEAN : PutResponse(i, ok)

Spec == Init /\ [][Next]_vars

----------------------------------------------------------------------------
(* Vocabulary of the properties *)

Watermark == getLastProcessedRow(localStorage)

\* Row j of the scan of run i has been dealt with by the loop
Handled(i, j) == j < runs[i].idx

\* The normalised email of row j of run i is no key of the users map
NoEntry(i, j) == runs[i].scanned[j].email \notin DOMAIN runs[i].usersMap

\* The email is a key of the users map, with a blank sheet id
BlankTarget(i, j) == ~NoEntry(i, j) /\ runs[i].usersMap[runs[i].scanned[j].email] = <<>>

RowsWith(i, result) == {j \in DOMAIN hist[i].results : hist[i].results[j] = result}

RowIndexOf(i, j) == runs[i].scanned[j].rowIndex

----------------------------------------------------------------------------
(* C1: in one tab whose local storage is never cleared, every master row   *)
(* is appended at most once to the sheet of the matching user, whatever   *)
(* runs the mount, the timer and manualSync start.                        *)
C1_EachRowCopiedAtMostOnce ==
    \A n \in DOMAIN copies : copies[n] <= 1

(* C2: the stored watermark never decreases, also when runs overlap: every *)
(* step leaves it greater than or equal to what it was.                    *)
C2_WatermarkNeverDecreases ==
    [][getLastProcessedRow(localStorage') >= getLastProcessedRow(localStorage)]_vars

(* C3: when a run that no other run overlaps resolves after scanning at    *)
(* least one row, the stored watermark is the index of the last scanned   *)
(* row, whatever the outcome of that row.                                  *)
C3_WatermarkIsLastScannedRow ==
    \A i \in DOMAIN runs :
        (/\ runs[i].pc = "resolved"
         /\ ~hist[i].overlapped
         /\ Len(runs[i].scanned) >= 1)
        => hist[i].wmAtEnd = RowIndexOf(i, Len(runs[i].scanned))

(* C4: a scanned row whose email is no key of the users map adds one to    *)
(* the error count, nothing to the synced count, and causes no request to  *)
(* any user sheet.                                                         *)
C4_UnmatchedRowCountedNotWritten ==
    \A i \in DOMAIN runs :
        LET unmatched == {j \in DOMAIN runs[i].scanned : Handled(i, j) /\ NoEntry(i, j)}
            blank     == {j \in DOMAIN runs[i].scanned : Handled(i, j) /\ BlankTarget(i, j)}
        IN  /\ \A j \in unmatched :
                  hist[i].requests[j] = 0 /\ hist[i].results[j] = "none"
            /\ runs[i].stats.errors =
                  Cardinality(unmatched) + Cardinality(blank)
                  + Cardinality(RowsWith(i, "fail"))
            /\ runs[i].stats.synced = Cardinality(RowsWith(i, "ok"))

C4_Witness ==
    \E i \in DOMAIN runs : \E j \in DOMAIN runs[i].scanned :
        /\ Handled(i, j) /\ NoEntry(i, j)
        /\ runs[i].pc = "resolved"
        /\ runs[i].stats.errors = 1
        /\ runs[i].stats.synced = 1

(* C5: after a successful append of master row r by a run, a run that      *)
(* starts after that run has ended scans only rows with index above r.     *)
C5_LaterRunScansAbove ==
    \A i \in DOMAIN runs, k \in DOMAIN runs :
        i \in hist[k].startedAfter =>
            \A j \in RowsWith(i, "ok") : \A m \in DOMAIN runs[k].scanned :
                RowIndexOf(k, m) > RowIndexOf(i, j)

(* C6: a run that starts after a run has resolved, with no row added to    *)
(* the master sheet in between, appends nothing, writes no watermark and   *)
(* returns zero counts.  Stated for runs that no other run overlaps.       *)
C6_RerunIsNoOp ==
    \A i \in DOMAIN runs, k \in DOMAIN runs :
        (/\ i \in hist[k].startedAfter
         /\ runs[i].pc = "resolved" /\ runs[k].pc = "resolved"
         /\ ~hist[i].overlapped /\ ~hist[k].overlapped
         /\ hist[i].scanLen > 0
         /\ hist[k].scanLen = hist[i].scanLen)
        => /\ runs[k].stats = ZeroStats
           /\ hist[k].puts = 0
           /\ hist[k].writes = 0

(* C7: after the append of a matched row r failed in a run, no run that    *)
(* starts after that run has ended sends a request for row r again.        *)
C7_FailedRowNeverRetried ==
    \A i \in DOMAIN runs, k \in DOMAIN runs :
        i \in hist[k].startedAfter =>
            \A j \in RowsWith(i, "fail") : \A m \in DOMAIN hist[k].requests :
                RowIndexOf(k, m) = RowIndexOf(i, j) => hist[k].requests[m] = 0

(* C8: a run whose master-sheet read or users read failed has rejected     *)
(* with that error, has sent no request to a user sheet, has appended      *)
(* nothing and has written no watermark.                                   *)
C8_FetchFailureAbortsRun ==
    \A i \in DOMAIN runs :
        hist[i].failedFetch # "none" =>
            /\ runs[i].pc = "rejected"
            /\ runs[i].error = hist[i].failedFetch
            /\ hist[i].puts = 0
            /\ hist[i].writes = 0
            /\ \A j \in DOMAIN hist[i].requests : hist[i].requests[j] = 0

C8_Witness ==
    \E i \in DOMAIN runs :
        /\ hist[i].failedFetch = "users"
        /\ runs[i].pc = "rejected"
        /\ Len(runs[i].scanned) >= 1

(* C9: a failed append is counted for its row only: the run goes on to     *)
(* every later row of its scan and resolves with its counts, it does not   *)
(* reject.                                                                 *)
C9_RowFailureIsContained ==
    \A i \in DOMAIN runs : \A j \in RowsWith(i, "fail") :
        /\ runs[i].pc # "rejected"
        /\ Handled(i, j)
        /\ Ended(runs[i]) =>
              /\ runs[i].stats.processed = Len(runs[i].scanned)
              /\ \A m \in DOMAIN runs[i].scanned :
                    m > j => \/ hist[i].results[m] \in {"ok", "fail"}
                             \/ NoEntry(i, m) \/ BlankTarget(i, m)

C9_Witness ==
    \E i \in DOMAIN runs :
        /\ runs[i].pc = "resolved"
        /\ Len(runs[i].scanned) = 2
        /\ hist[i].results = <<"fail", "ok">>

(* C10: the counts of a resolved run satisfy processed = synced + errors,  *)
(* processed is the number of rows of its scan and synced is the number    *)
(* of its successful appends.                                              *)
C10_CountsAddUp ==
    \A i \in DOMAIN runs :
        runs[i].pc = "resolved" =>
            /\ runs[i].stats.processed = runs[i].stats.synced + runs[i].stats.errors
            /\ runs[i].stats.processed = Len(runs[i].scanned)
            /\ runs[i].stats.synced = hist[i].puts

C10_Witness ==
    \E i \in DOMAIN runs :
        /\ runs[i].pc = "resolved"
        /\ runs[i].stats = [processed |-> 2, synced |-> 1, errors |-> 1]

----------------------------------------------------------------------------
(* More vocabulary *)

\* The watermark a run found stored when it started, 1 when none was stored
StoredAtStart(i) ==
    IF hist[i].lsAtStart = NULL THEN 1 ELSE parseInt(hist[i].lsAtStart)

\* The master read of run i has been answered with rows
ScanDone(i) == hist[i].scanLen > 0

ScannedIndices(i) == {runs[i].scanned[j].rowIndex : j \in DOMAIN runs[i].scanned}

\* A master row that has a patient name and an email that is not blank
ValidRow(row) == row.patientName # <<>> /\ trim(toLowerCase(row.email)) # <<>>

(* C11 as stated: a run scans exactly the master rows with index above the *)
(* watermark read at its start (1 when none is stored), and the header row *)
(* is never scanned nor copied.                                            *)
C11_ScansEveryRowAboveWatermark ==
    /\ copies[1] = 0
    /\ \A i \in DOMAIN runs :
          ScanDone(i) =>
              ScannedIndices(i) = {n \in 1..hist[i].scanLen : n > StoredAtStart(i)}

(* C11 amended: a run whose master read succeeds scans exactly the rows    *)
(* with index above the watermark read at its start (1 when none is        *)
(* stored) that have a patient name and a non-blank email; rows lacking    *)
(* one are dropped.  The header row is never scanned nor copied.           *)
C11_ScansValidRowsAboveWatermark ==
    /\ copies[1] = 0
    /\ \A i \in DOMAIN runs :
          /\ 1 \notin ScannedIndices(i)
          /\ ScanDone(i) =>
                /\ runs[i].startRow = StoredAtStart(i) + 1
                /\ ScannedIndices(i) =
                      {n \in 1..hist[i].scanLen :
                          n > StoredAtStart(i) /\ ValidRow(master[n])}
                /\ \A j \in DOMAIN runs[i].scanned :
                      \A m \in DOMAIN runs[i].scanned :
                          j < m => RowIndexOf(i, j) < RowIndexOf(i, m)

C11_Witness ==
    \E i \in DOMAIN runs :
        /\ hist[i].lsAtStart = NULL
        /\ hist[i].scanLen = 3
        /\ ~ValidRow(master[2])
        /\ ScannedIndices(i) = {3}
        /\ copies[3] = 1

----------------------------------------------------------------------------
(* The resolver on its own: one master row against one users sheet *)

ProbeEmails == { <<"A">>, <<" ", "a">>, <<"a", " ">>, <<"c">>, <<"b">> }

ProbeEntries ==
    [email    : { <<>>, <<"A">>, <<"a", " ">>, <<"c">> },
     password : { <<"p">> },
     sheet    : { <<>>, <<" ">>, <<"S">>, <<" ", "T">> }]

RECURSIVE SeqsUpTo(_, _)
SeqsUpTo(S, n) ==
    IF n = 0 THEN {<<>>}
    ELSE LET shorter == SeqsUpTo(S, n - 1)
         IN  shorter \cup {Append(q, x) : q \in shorter, x \in S}

InitResolve ==
    /\ InitSync
    /\ apiKey = TRUE
    /\ auth = NoAuth
    /\ dashboard = NoDashboard
    /\ probe \in [pc    : {"scan"},
                  email : ProbeEmails,
                  dir   : SeqsUpTo(ProbeEntries, MaxDirectory),
                  run   : {newRun(NULL, TRUE)}]

\* The row is read from the master sheet as row 2
ProbeScan ==
    /\ probe.pc = "scan"
    /\ probe' = [probe EXCEPT
                   !.pc  = "resolve",
                   !.run = afterFetchNewAppointments(
                              probe.run,
                              <<[patientName |-> <<"P">>, email |-> probe.email]>>)]
    /\ UNCHANGED <<syncVars, auth, dashboard>>

\* The users sheet is read and the loop looks the row up
ProbeResolve ==
    /\ probe.pc = "resolve"
    /\ probe.run.pc = "fetchUsers"
    /\ probe' = [probe EXCEPT
                   !.pc  = "done",
                   !.run = afterFetchUsersMap(probe.run, probe.dir)]
    /\ UNCHANGED <<syncVars, auth, dashboard>>

NextResolve == ProbeScan \/ ProbeResolve

SpecResolve == InitResolve /\ [][NextResolve]_vars

Normalised(e) == trim(toLowerCase(e))

\* The rows of the probed users sheet that fetchUsersMap keeps and whose
\* email is the probed email up to case and surrounding blanks
ProbeMatches ==
    {k \in DOMAIN probe.dir :
        /\ probe.dir[k].email # <<>>
        /\ probe.dir[k].sheet # <<>>
        /\ Normalised(probe.dir[k].email) = Normalised(probe.email)}

ProbeLast == CHOOSE k \in ProbeMatches : \A m \in ProbeMatches : m <= k

\* The loop went on to append the probed row to a sheet
ProbeResolved == probe.pc = "done" /\ probe.run.pc = "check"

----------------------------------------------------------------------------
\* The users sheet has been asked for by run i
UsersReadStarted(i) ==
    \/ runs[i].pc = "fetchUsers"
    \/ hist[i].failedFetch = "users"
    \/ runs[i].idx >= 1

\* The users sheet has been read by run i
UsersReadDone(i) == runs[i].idx >= 1

\* Row j of run i has no target sheet
NoTarget(i, j) == NoEntry(i, j) \/ BlankTarget(i, j)

C13_OrderInRun ==
    \A i \in DOMAIN runs :
        /\ runs[i].pc = "fetchMaster" => ~UsersReadStarted(i) /\ runs[i].scanned = <<>>
        /\ UsersReadStarted(i) => ScanDone(i) /\ Len(runs[i].scanned) >= 1
        /\ Len(runs[i].scanned) = 0 => ~UsersReadStarted(i)
        /\ \A j \in DOMAIN hist[i].requests :
              /\ hist[i].requests[j] > 0 =>
                    /\ UsersReadDone(i)
                    /\ \A m \in 1..(j - 1) :
                          hist[i].results[m] # "none" \/ NoTarget(i, m)
              /\ (hist[i].requests[j] > 0 /\ hist[i].results[j] = "none") =>
                    j = runs[i].idx /\ runs[i].pc \in {"check", "put"}
              /\ hist[i].results[j] # "none" => Handled(i, j)

C13_WriteFollowsAttempt ==
    localStorage' # localStorage =>
        \E i \in DOMAIN runs : \E j \in DOMAIN hist[i].results :
            /\ hist[i].results[j] = "none"
            /\ hist'[i].results[j] \in {"ok", "fail"}
            /\ localStorage' = toString(RowIndexOf(i, j))

(* C13: in one run the master read completes before the directory read     *)
(* starts, the directory read completes before any append starts, rows are *)
(* handled one at a time in increasing index, the watermark is written for *)
(* a row only when that row's append attempt has finished, and the         *)
(* directory is not read when the scan returns no rows.                    *)
C13_StepsInOrder == []C13_OrderInRun /\ [][C13_WriteFollowsAttempt]_vars

C13_Witness ==
    \E i \in DOMAIN runs :
        /\ runs[i].pc = "put"
        /\ runs[i].idx = 2
        /\ hist[i].results = <<"ok", "none">>
        /\ Watermark = 2

----------------------------------------------------------------------------
(* The scheduler *)

\* The runs a step starts
NewRuns == DOMAIN hist' \ DOMAIN hist

\* startAutoSync is called in this step
AutoSyncCalled == nextIntervalId' # nextIntervalId

C14_OneRunPerCallAndTick ==
    /\ AutoSyncCalled =>
          /\ Cardinality({k \in NewRuns : hist'[k].origin = "auto"}) = 1
          /\ \A k \in NewRuns :
                hist'[k].origin = "auto" => hist'[k].timer = nextIntervalId
          /\ nextIntervalId \in intervals'
    /\ (\E k \in NewRuns : hist'[k].origin = "tick") =>
          /\ Cardinality(NewRuns) = 1
          /\ \A k \in NewRuns : hist'[k].timer \in intervals
          /\ intervals' = intervals
    /\ (\E k \in NewRuns : hist'[k].origin = "auto") => AutoSyncCalled
    /\ (NewRuns = {} /\ mounted' = mounted /\ enabled' = enabled) =>
          intervals' = intervals

C14_TicksGoOn ==
    \A id \in intervals :
        (MayStart(1) /\ \E k \in DOMAIN runs : runs[k].pc = "rejected")
            => ENABLED Tick(id)

(* C14: startAutoSync starts one run when it is called and one further run *)
(* at each tick of its interval while the cancel handle has not been       *)
(* invoked; a run that rejects does not stop later ticks.                  *)
C14_RunAtCallAndAtEachTick ==
    []C14_TicksGoOn /\ [][C14_OneRunPerCallAndTick]_vars

C14_Witness ==
    \E k \in DOMAIN runs, t \in DOMAIN runs :
        /\ hist[k].origin = "auto"
        /\ runs[k].pc = "rejected"
        /\ hist[t].origin = "tick"
        /\ hist[t].timer = hist[k].timer
        /\ k \in hist[t].startedAfter

----------------------------------------------------------------------------
C15_NoTickOfCancelled ==
    \A k \in NewRuns :
        hist'[k].origin = "tick" => hist'[k].timer \notin cancelled

C15_CancelledIsInactive == cancelled \cap intervals = {}

(* C15: after the cancel handle that startAutoSync returned has been       *)
(* invoked, that scheduler starts no further run.                          *)
C15_NoRunAfterCancel ==
    []C15_CancelledIsInactive /\ [][C15_NoTickOfCancelled]_vars

C15_Witness ==
    \E id \in cancelled :
        /\ \E k \in DOMAIN hist : hist[k].origin = "tick" /\ hist[k].timer = id
        /\ MayStart(1)

----------------------------------------------------------------------------
(* C16: the scheduler does not prevent overlap: while an earlier run is    *)
(* still in flight, a tick of an active interval starts a new run all the  *)
(* same (within the bounds on runs).                                       *)
C16_TickWhileRunInFlight ==
    \A id \in intervals :
        (MayStart(1) /\ \E k \in DOMAIN runs : InFlight(runs[k]))
            => ENABLED Tick(id)

\* Two runs in flight that read the same watermark, one started by a tick
C16_Witness ==
    \E k \in DOMAIN runs, t \in DOMAIN runs :
        /\ k # t
        /\ InFlight(runs[k]) /\ InFlight(runs[t])
        /\ hist[t].origin = "tick"
        /\ hist[k].lsAtStart = hist[t].lsAtStart
        /\ runs[k].startRow = runs[t].startRow

----------------------------------------------------------------------------
(* C17: for one mounted useAppointmentSync, over mounts, re-runs of the    *)
(* effect and unmounts, at most one interval of startAutoSync is active at *)
(* any time, and none is active after the unmount.                         *)
C17_SingleTimer ==
    /\ Cardinality(intervals) <= 1
    /\ ~mounted => intervals = {}
    /\ \A id \in intervals : enabled /\ id = cleanupRef

\* The effect has run twice with enabled = true; the second interval is
\* the active one
C17_Witness ==
    /\ mounted
    /\ nextIntervalId = 3
    /\ intervals = {2}
    /\ cancelled = {1}

----------------------------------------------------------------------------
(* Loss of the stored watermark *)

\* last_processed_appointment_row is removed from the local storage
ClearStorage ==
    /\ localStorage # NULL
    /\ localStorage' = NULL
    /\ UNCHANGED <<apiKey, master, userSheets, runs, hist, copies,
                   mounted, enabled, intervals, nextIntervalId, cleanupRef,
                   cancelled, auth, probe, dashboard>>

NextStorageLoss == Next \/ ClearStorage

SpecStorageLoss == Init /\ [][NextStorageLoss]_vars

\* The position of master row n in the scan of run k, 0 when it is not there
PositionOf(k, n) ==
    IF n \in ScannedIndices(k)
    THEN CHOOSE m \in DOMAIN runs[k].scanned : RowIndexOf(k, m) = n
    ELSE 0

(* C18: a run that starts when the stored watermark has been removed scans *)
(* the master sheet from row 2 again, and every row that an earlier run    *)
(* had copied is sent to the user sheet again: when the later run resolves *)
(* without a failed request, the row has been appended once more.          *)
C18_RescanAfterStorageLoss ==
    \A i \in DOMAIN runs, k \in DOMAIN runs :
        (i \in hist[k].startedAfter /\ hist[k].lsAtStart = NULL /\ apiKey) =>
            /\ runs[k].startRow = 2
            /\ \A j \in RowsWith(i, "ok") :
                  LET n == RowIndexOf(i, j)
                      m == PositionOf(k, n)
                  IN  (ScanDone(k) /\ n <= hist[k].scanLen) =>
                          /\ m # 0
                          /\ (Handled(k, m) /\ UsersReadDone(k)) =>
                                hist[k].results[m] \in {"ok", "fail"}
                          /\ (runs[k].pc = "resolved" /\ RowsWith(k, "fail") = {}) =>
                                hist[k].results[m] = "ok" /\ copies[n] >= 2

C18_Witness ==
    \E i \in DOMAIN runs, k \in DOMAIN runs :
        /\ i \in hist[k].startedAfter
        /\ ~hist[i].overlapped /\ ~hist[k].overlapped
        /\ hist[k].lsAtStart = NULL
        /\ runs[k].pc = "resolved"
        /\ \E j \in RowsWith(i, "ok") : RowIndexOf(i, j) = 2
        /\ \E m \in RowsWith(k, "ok") : RowIndexOf(k, m) = 2
        /\ copies[2] = 2

----------------------------------------------------------------------------
(* The enabled option of the hook *)

\* The hook is mounted, respectively unmounted, in this step
Mounting == ~mounted /\ mounted'

Unmounting == mounted /\ ~mounted'

C20_DisabledStartsNothing ==
    /\ (Mounting /\ ~enabled') =>
          /\ NewRuns = {}
          /\ ~AutoSyncCalled
          /\ intervals' = {}
    /\ (mounted' /\ ~enabled') =>
          /\ \A k \in NewRuns : hist'[k].origin = "manual"
          /\ intervals' = {}

C20_EnabledStartsAndCancels ==
    /\ (Mounting /\ enabled') =>
          /\ AutoSyncCalled
          /\ \E k \in NewRuns : hist'[k].origin = "auto"
          /\ \E k \in NewRuns : hist'[k].origin = "hook"
          /\ cleanupRef' \in intervals'
    /\ (Unmounting /\ enabled) =>
          /\ cleanupRef \in cancelled'
          /\ cleanupRef \notin intervals'

(* C20: a mount of useAppointmentSync with enabled = false starts no sync  *)
(* run and no interval, and while it is disabled the hook starts none; a   *)
(* mount with enabled = true starts runs and an interval; the unmount of   *)
(* an enabled hook invokes the cancel handle of the startAutoSync call of  *)
(* its effect.                                                             *)
C20_HookFollowsEnabled ==
    [][C20_DisabledStartsNothing /\ C20_EnabledStartsAndCancels]_vars

C20_Witness ==
    /\ mounted /\ ~enabled
    /\ Len(runs) = 2
    /\ nextIntervalId = 2
    /\ cancelled = {1}
    /\ intervals = {}

----------------------------------------------------------------------------
(* contexts/AuthContext *)

NoUser == <<>>              \* user is <<>> for null, <<u>> for the user u

InvalidSheetId == <<"Invalid users sheet ID format">>
HttpError == <<"HTTP error! status">>
InvalidCredentials == <<"Invalid email or password">>
AlreadyRegistered == <<"Email already registered. Please login instead.">>

\* JSON.stringify and JSON.parse of a User
JSONstringify(u) ==
    << <<"email">>, u.email,
       <<"appointmentsSheetUrl">>, u.appointmentsSheetUrl >>

JSONparse(json) ==
    [email |-> json[2], appointmentsSheetUrl |-> json[4]]

\* VITE_USERS_SHEET_ID: not set, an id, a URL that holds no spreadsheet id
UsersSheetIds == { <<>>, <<"U">>, <<"/">> }

\* extractSpreadsheetId of AuthContext
extractUsersSheetId(url) ==
    IF url = <<>> THEN NULL
    ELSE IF \A i \in DOMAIN url : url[i] # "/" THEN url
    ELSE NULL

AuthCredentials ==
    [email : { <<"A">>, <<"a">>, <<"b">> }, password : { <<"p">>, <<"q">> }]

InitAuth ==
    /\ InitSync
    /\ probe = NoProbe
    /\ dashboard = NoDashboard
    /\ auth \in [pc           : {"constructed"},
                 usersSheetId : UsersSheetIds,
                 user         : {NoUser},
                 isLoading    : {TRUE},
                 error        : {NULL},
                 session      : {NULL,
                                 JSONstringify([email |-> <<"A">>,
                                                appointmentsSheetUrl |-> SheetS])},
                 directory    : {<<>>, SubSeq(UsersSheet, 1, 1)},
                 calls        : {<<>>},
                 now          : {0}]

\* The effect of AuthProvider on mount restores the stored session
AuthMount ==
    /\ auth.pc = "constructed"
    /\ auth' = [auth EXCEPT
                  !.pc = "mounted",
                  !.user = IF auth.session # NULL
                           THEN <<JSONparse(auth.session)>>
                           ELSE @,
                  !.isLoading = FALSE]
    /\ UNCHANGED <<syncVars, probe, dashboard>>

\* The API key and the users sheet are configured
configured == apiKey /\ auth.usersSheetId # <<>>

\* The calls in flight, noted as overlapped by another call (history only)
noteOverlap(calls) ==
    [c \in DOMAIN calls |->
        IF calls[c].pc # "returned"
        THEN [calls[c] EXCEPT !.overlapped = TRUE]
        ELSE calls[c]]

\* A call of login or register with its first two statements done
called(op, credentials) ==
    [auth EXCEPT
       !.isLoading = TRUE,
       !.error = NULL,
       !.calls = Append(noteOverlap(@),
                           [op            |-> op,
                            overlapped    |->
                                \E c \in DOMAIN auth.calls :
                                    auth.calls[c].pc # "returned",
                            email         |-> credentials.email,
                            password      |-> credentials.password,
                            pc            |-> "read",
                            readOk        |-> FALSE,
                            rows          |-> <<>>,
                            sheetUrl      |-> <<>>,
                            nextRow       |-> 0,
                            returned      |-> "pending",
                            userBefore    |-> auth.user,
                            sessionBefore |-> auth.session])]

\* A sign-in that does not store the session
signedInUnstored(a, u) ==
    [a EXCEPT !.user = <<u>>, !.isLoading = FALSE]

signedIn(a, u) ==
    [a EXCEPT !.user = <<u>>, !.session = JSONstringify(u),
              !.isLoading = FALSE]

caught(a, message) == [a EXCEPT !.error = message, !.isLoading = FALSE]

returns(a, c, value) ==
    [a EXCEPT !.calls[c].pc = "returned", !.calls[c].returned = value]

\* A search of the directory by email only
findUserRowByEmail(rows, email, password) ==
    LET hits == {k \in DOMAIN rows : rows[k].email = email}
    IN  IF hits = {} THEN 0 ELSE CHOOSE k \in hits : \A h \in hits : k <= h

\* rows.find: the index of the first row that satisfies the test, 0 if none
findUserRow(rows, email, password) ==
    LET hits == {k \in DOMAIN rows :
                    rows[k].email = email /\ rows[k].password = password}
    IN  IF hits = {} THEN 0 ELSE CHOOSE k \in hits : \A h \in hits : k <= h

findExistingUser(rows, email) ==
    LET hits == {k \in DOMAIN rows : rows[k].email = email}
    IN  IF hits = {} THEN 0 ELSE CHOOSE k \in hits : \A h \in hits : k <= h

\* Date.now() does not go back
Clock == {t \in auth.now..(auth.now + 1) : t <= MaxClock}

\* login, up to its fetch of the users sheet
Login(credentials) ==
    /\ auth.pc = "mounted"
    /\ Len(auth.calls) < MaxCalls
    /\ LET c == Len(auth.calls) + 1
           a == called("login", credentials)
           demoUser == [email |-> credentials.email,
                        appointmentsSheetUrl |-> <<"demo-sheet-url">>]
       IN  auth' = IF ~configured
                   THEN returns(signedIn(a, demoUser), c, "true")
                   ELSE IF extractUsersSheetId(auth.usersSheetId) = NULL
                   THEN returns(caught(a, InvalidSheetId), c, "false")
                   ELSE a
    /\ UNCHANGED <<syncVars, probe, dashboard>>

\* login, from the response of the users sheet to its return
LoginResponse(c, ok) ==
    /\ c \in DOMAIN auth.calls
    /\ auth.calls[c].op = "login"
    /\ auth.calls[c].pc = "read"
    /\ LET rows == auth.directory
           k == findUserRow(rows, auth.calls[c].email, auth.calls[c].password)
           a == [auth EXCEPT !.calls[c].readOk = ok,
                             !.calls[c].rows = IF ok THEN rows ELSE @]
       IN  auth' = IF ~ok
                   THEN returns(caught(a, HttpError), c, "false")
                   ELSE IF k # 0
                   THEN returns(signedIn(a, [email |-> rows[k].email,
                                             appointmentsSheetUrl |->
                                                 rows[k].sheet]),
                                c, "true")
                   ELSE returns(caught(a, InvalidCredentials), c, "false")
    /\ UNCHANGED <<syncVars, probe, dashboard>>

\* register, up to its fetch of the users sheet
Register(credentials) ==
    /\ auth.pc = "mounted"
    /\ Len(auth.calls) < MaxCalls
    /\ \E t \in Clock :
          LET c == Len(auth.calls) + 1
              a == [called("register", credentials) EXCEPT !.now = t]
              demoUser == [email |-> credentials.email,
                           appointmentsSheetUrl |->
                               <<"demo-sheet-url-">> \o toString(t)]
          IN  auth' = IF ~configured
                      THEN returns(signedIn(a, demoUser), c, "true")
                      ELSE IF extractUsersSheetId(auth.usersSheetId) = NULL
                      THEN returns(caught(a, InvalidSheetId), c, "false")
                      ELSE [a EXCEPT !.now = auth.now]
    /\ UNCHANGED <<syncVars, probe, dashboard>>

\* register, from the response of the users sheet to its PUT of the new row
RegisterReadResponse(c, ok) ==
    /\ c \in DOMAIN auth.calls
    /\ auth.calls[c].op = "register"
    /\ auth.calls[c].pc = "read"
    /\ \E t \in Clock :
          LET rows == auth.directory
              a == [auth EXCEPT !.calls[c].readOk = ok,
                                !.calls[c].rows = IF ok THEN rows ELSE @]
          IN  auth' = IF ~ok
                      THEN returns(caught(a, HttpError), c, "false")
                      ELSE IF findExistingUser(rows, auth.calls[c].email) # 0
                      THEN returns(caught(a, AlreadyRegistered), c, "false")
                      ELSE [a EXCEPT
                              !.now = t,
                              !.calls[c].pc = "put",
                              !.calls[c].sheetUrl =
                                  <<"new-sheet-">> \o toString(t),
                              !.calls[c].nextRow = Len(rows) + 2]
    /\ UNCHANGED <<syncVars, probe, dashboard>>

\* The users sheet after a PUT of one row to Sheet1!A<nextRow>:C<nextRow>
putUser(directory, nextRow, row) ==
    [k \in (DOMAIN directory) \cup {nextRow - 1} |->
        IF k = nextRow - 1 THEN row ELSE directory[k]]

\* register, from the response of its PUT to its return
RegisterPutResponse(c, ok) ==
    /\ c \in DOMAIN auth.calls
    /\ auth.calls[c].op = "register"
    /\ auth.calls[c].pc = "put"
    /\ LET call == auth.calls[c]
           newUser == [email |-> call.email,
                       appointmentsSheetUrl |-> call.sheetUrl]
           a == [auth EXCEPT
                   !.directory = putUser(@, call.nextRow,
                                         [email    |-> call.email,
                                          password |-> call.password,
                                          sheet    |-> call.sheetUrl])]
       IN  auth' = IF ~ok
                   THEN returns(caught(auth, HttpError), c, "false")
                   ELSE returns(signedIn(a, newUser), c, "true")
    /\ UNCHANGED <<syncVars, probe, dashboard>>

logout ==
    /\ auth.pc = "mounted"
    /\ auth' = [auth EXCEPT !.user = NoUser, !.session = NULL,
                            !.calls = noteOverlap(@)]
    /\ UNCHANGED <<syncVars, probe, dashboard>>

NextAuth ==
    \/ AuthMount
    \/ \E credentials \in AuthCredentials : Login(credentials)
    \/ \E credentials \in AuthCredentials : Register(credentials)
    \/ \E c \in 1..MaxCalls, ok \in BOOLEAN : LoginResponse(c, ok)
    \/ \E c \in 1..MaxCalls, ok \in BOOLEAN : RegisterReadResponse(c, ok)
    \/ \E c \in 1..MaxCalls, ok \in BOOLEAN : RegisterPutResponse(c, ok)
    \/ logout

SpecAuth == InitAuth /\ [][NextAuth]_vars

\* Two emails that differ at most in letter case
SameIgnoringCase(e1, e2) == toLowerCase(e1) = toLowerCase(e2)

\* The rows that call c read from the users sheet whose email is the email
\* of the call up to letter case
EntriesFor(c) ==
    {k \in DOMAIN auth.calls[c].rows :
        SameIgnoringCase(auth.calls[c].rows[k].email, auth.calls[c].email)}

(* C19: login and the duplicate check of register look an email up in the  *)
(* user directory without regard to letter case: a login whose read of the *)
(* directory succeeds and finds an entry with the same email up to case    *)
(* and the same password returns true, and a register whose read finds an  *)
(* entry with the same email up to case returns false and writes nothing.  *)
C19_DirectoryKeyedIgnoringCase ==
    \A c \in DOMAIN auth.calls :
        LET call == auth.calls[c]
        IN  call.readOk =>
              /\ (/\ call.op = "login"
                  /\ call.pc = "returned"
                  /\ \E k \in EntriesFor(c) :
                        call.rows[k].password = call.password)
                    => call.returned = "true"
              /\ (call.op = "register" /\ EntriesFor(c) # {})
                    => call.pc = "returned" /\ call.returned = "false"

----------------------------------------------------------------------------
(* A row from the fan-out writer to the dashboard reader *)

\* The appointments appendAppointmentToUserSheet can be given
WrittenAppointments ==
    [patientName : { <<"P">> },
     email       : { <<"a">> },
     phoneNumber : { <<>>, <<"1">> },
     reportUrl   : { <<>>, <<"r">> },
     date        : { <<>>, <<"d">> },
     startTime   : { <<>>, <<"t">> },
     status      : { <<"scheduled">>, <<"completed">>, <<"cancelled">> }]

\* The values of the PUT of appendAppointmentToUserSheet, columns A to G
valuesRow(appointment) ==
    << appointment.patientName, appointment.email, appointment.phoneNumber,
       appointment.reportUrl, appointment.date, appointment.startTime,
       appointment.status >>

\* A user sheet as rows of cells: empty, with its header row, with one row
UserSheetHeader == << <<"N">>, <<"E">>, <<"T">>, <<"R">>, <<"D">>, <<"S">>, <<"X">> >>

InitialUserSheets ==
    { <<>>,
      <<UserSheetHeader>>,
      <<UserSheetHeader,
        valuesRow([patientName |-> <<"Q">>, email |-> <<"a">>,
                   phoneNumber |-> <<"2">>, reportUrl |-> <<>>,
                   date |-> <<"d">>, startTime |-> <<"t">>,
                   status |-> <<"scheduled">>])>> }

\* "row[k] || ''" for the 0-based k of the source
cellOr(row, k, default) ==
    IF k + 1 <= Len(row) /\ row[k + 1] # <<>> THEN row[k + 1] ELSE default

\* The element that fetchAppointments of useGoogleSheets maps a row to
parsedAppointment(row, index) ==
    [id               |-> toString(index + 1),
     patient_name     |-> cellOr(row, 0, <<>>),
     email            |-> cellOr(row, 1, <<>>),
     phone_number     |-> cellOr(row, 2, <<>>),
     patient_symptoms |-> cellOr(row, 3, <<>>),
     report_url       |-> cellOr(row, 4, <<>>),
     date             |-> cellOr(row, 5, <<>>),
     start_time       |-> cellOr(row, 6, <<>>),
     status           |-> cellOr(row, 7, <<"scheduled">>)]

\* The rows of the range Sheet1!A2:H, then rows.map of fetchAppointments
parsedAppointments(sheet) ==
    LET rows == valuesFrom(sheet, 2)
    IN  [k \in DOMAIN rows |-> parsedAppointment(rows[k], k - 1)]

InitRoundTrip ==
    /\ InitSync
    /\ apiKey = TRUE
    /\ auth = NoAuth
    /\ dashboard = NoDashboard
    /\ probe \in [pc           : {"check"},
                  appointment  : WrittenAppointments,
                  sheet        : InitialUserSheets,
                  nextRow      : {0},
                  appointments : {<<>>}]

\* appendAppointmentToUserSheet, the response to its read of Sheet1!A:A
RoundTripCheck ==
    /\ probe.pc = "check"
    /\ probe' = [probe EXCEPT !.pc = "put", !.nextRow = Len(probe.sheet) + 1]
    /\ UNCHANGED <<syncVars, auth, dashboard>>

\* appendAppointmentToUserSheet, its PUT
RoundTripPut ==
    /\ probe.pc = "put"
    /\ probe' = [probe EXCEPT
                   !.pc = "fetch",
                   !.sheet = putRow(@, probe.nextRow,
                                    valuesRow(probe.appointment))]
    /\ UNCHANGED <<syncVars, auth, dashboard>>

\* fetchAppointments of useGoogleSheets on the same sheet
RoundTripFetch ==
    /\ probe.pc = "fetch"
    /\ probe' = [probe EXCEPT
                   !.pc = "shown",
                   !.appointments = parsedAppointments(probe.sheet)]
    /\ UNCHANGED <<syncVars, auth, dashboard>>

NextRoundTrip == RoundTripCheck \/ RoundTripPut \/ RoundTripFetch

SpecRoundTrip == InitRoundTrip /\ [][NextRoundTrip]_vars

\* The appointment that the reader shows has the fields of the written one
SameFields(shown, written) ==
    /\ shown.patient_name = written.patientName
    /\ shown.email = written.email
    /\ shown.phone_number = written.phoneNumber
    /\ shown.report_url = written.reportUrl
    /\ shown.date = written.date
    /\ shown.start_time = written.startTime
    /\ shown.status = written.status

(* C21: once a row written by appendAppointmentToUserSheet has been read   *)
(* back by fetchAppointments, the appointments of the dashboard hold one   *)
(* with the patient name, email, phone, report reference, date, start time *)
(* and status of the row that was written.                                 *)
C21_WrittenRowReadBack ==
    probe.pc = "shown" =>
        \E k \in DOMAIN probe.appointments :
            SameFields(probe.appointments[k], probe.appointment)

----------------------------------------------------------------------------
(* Appends that interleave *)

\* The PUT of run i is answered with success in this step
PutSucceeds(i) == hist'[i].puts = hist[i].puts + 1

\* The step only adds one row below the rows of sheet s
GrowsByOneRow(s) ==
    /\ Len(userSheets'[s]) = Len(userSheets[s]) + 1
    /\ \A k \in DOMAIN userSheets[s] : userSheets'[s][k] = userSheets[s][k]

(* C22: every successful PUT of appendAppointmentToUserSheet lands on a    *)
(* row that was empty: it leaves the rows that were in the user sheet as   *)
(* they were and makes the sheet one row longer, also when the row-count   *)
(* reads and PUTs of two runs interleave.                                  *)
C22_AppendNeverOverwrites ==
    [][\A i \in DOMAIN runs :
          PutSucceeds(i) => GrowsByOneRow(runs[i].target)]_vars

----------------------------------------------------------------------------
(* C23: the step that mounts useAppointmentSync with enabled = true starts *)
(* exactly one run of syncAppointments; every further run is started by a  *)
(* tick of the interval or by manualSync.                                  *)
C23_OneRunAtMount ==
    [][(Mounting /\ enabled') => Cardinality(NewRuns) = 1]_vars

----------------------------------------------------------------------------
(* Termination of a run *)

\* The request that run i waits for is answered
Responds(i) ==
    /\ i \in DOMAIN runs
    /\ \E ok \in BOOLEAN :
          \/ MasterResponse(i, ok)
          \/ UsersResponse(i, ok)
          \/ CheckResponse(i, ok)
          \/ PutResponse(i, ok)

\* A master sheet with up to MaxRows rows, the hook not yet mounted
InitAnswered ==
    /\ localStorage = NULL
    /\ apiKey = TRUE
    /\ master \in {<<HeaderRow>> \o rows : rows \in SeqsUpTo(RowKinds, MaxRows)}
    /\ userSheets = [s \in SheetIds |-> <<HeaderRow>>]
    /\ runs = <<>>
    /\ hist = <<>>
    /\ copies = [n \in 1..(1 + MaxRows) |-> 0]
    /\ mounted = FALSE
    /\ enabled = FALSE
    /\ intervals = {}
    /\ nextIntervalId = 1
    /\ cleanupRef = NoInterval
    /\ cancelled = {}
    /\ auth = NoAuth
    /\ probe = NoProbe
    /\ dashboard = NoDashboard

\* The mount of the enabled hook and the ticks of its interval start the
\* runs
NextAnswered ==
    \/ Mount(TRUE)
    \/ \E id \in intervals : Tick(id)
    \/ \E i \in DOMAIN runs, ok \in BOOLEAN : MasterResponse(i, ok)
    \/ \E i \in DOMAIN runs, ok \in BOOLEAN : UsersResponse(i, ok)
    \/ \E i \in DOMAIN runs, ok \in BOOLEAN : CheckResponse(i, ok)
    \/ \E i \in DOMAIN runs, ok \in BOOLEAN : PutResponse(i, ok)

\* Every remote request eventually returns a response or an error
SpecAnswered ==
    /\ InitAnswered
    /\ [][NextAnswered]_vars
    /\ \A i \in 1..MaxRuns : WF_vars(Responds(i))

C24_RunEnds ==
    \A i \in 1..MaxRuns :
        (i \in DOMAIN runs) ~> (i \in DOMAIN runs /\ Ended(runs[i]))

\* A run that resolves after the loop has dealt with every scanned row, and
\* no row takes more than its row-count read and its PUT
C24_EachRowOnce ==
    \A i \in DOMAIN runs :
        /\ (runs[i].pc = "resolved" /\ runs[i].scanned # <<>>) =>
              /\ runs[i].idx = Len(runs[i].scanned) + 1
              /\ runs[i].stats.processed = Len(runs[i].scanned)
              /\ runs[i].stats.synced + runs[i].stats.errors
                    = Len(runs[i].scanned)
        /\ \A j \in DOMAIN hist[i].requests : hist[i].requests[j] <= 2

\* The loop only moves forward, an outcome once noted stays, and a run that
\* has ended does nothing more
C24_NoLoopBack ==
    \A i \in DOMAIN runs :
        /\ runs'[i].idx >= runs[i].idx
        /\ runs[i].scanned # <<>> => runs'[i].scanned = runs[i].scanned
        /\ Ended(runs[i]) => runs'[i] = runs[i]
        /\ \A j \in DOMAIN hist[i].results :
              hist[i].results[j] # "none" =>
                  hist'[i].results[j] = hist[i].results[j]

(* C24: when every remote request is answered, with a response or with an  *)
(* error, every run of syncAppointments resolves or rejects; it deals with *)
(* each scanned row once, in one pass: no request is repeated and the loop *)
(* never goes back.                                                        *)
C24_EveryRunEndsInOnePass ==
    /\ C24_RunEnds
    /\ []C24_EachRowOnce
    /\ [][C24_NoLoopBack]_vars

C24_Witness ==
    \E i \in DOMAIN runs :
        /\ runs[i].pc = "resolved"
        /\ hist[i].results = <<"fail", "ok">>
        /\ hist[i].requests = <<1, 2>>

----------------------------------------------------------------------------
(* hooks/useGoogleSheets *)

NotConfigured == <<"Google Sheets API key is not configured.">>
InvalidUrl == <<"Invalid Google Sheets URL format">>
UpdateFailed == <<"Failed to update appointment status. Please try again.">>

Scheduled == <<"scheduled">>
Completed == <<"completed">>
Cancelled == <<"cancelled">>
AppointmentStatus == {Scheduled, Completed, Cancelled}

\* The demo data of fetchAppointments, ids and statuses
DemoAppointments ==
    << [id |-> <<"1">>, status |-> Scheduled],
       [id |-> <<"2">>, status |-> Completed],
       [id |-> <<"3">>, status |-> Scheduled] >>

\* rows.map of fetchAppointments on the status cells (column H) of the rows
shownAppointments(rows) ==
    [k \in DOMAIN rows |->
        [id     |-> toString((k - 1) + 1),
         status |-> IF rows[k] # <<>> THEN rows[k] ELSE Scheduled]]

\* prev.map(apt => apt.id === id ? { ...apt, status } : apt)
withStatus(prev, id, status) ==
    [k \in DOMAIN prev |->
        IF prev[k].id = id THEN [prev[k] EXCEPT !.status = status] ELSE prev[k]]

\* appointments.findIndex(apt => apt.id === id), 0-based, -1 if none
findIndex(appointments, id) ==
    LET hits == {k \in DOMAIN appointments : appointments[k].id = id}
    IN  IF hits = {} THEN -1
        ELSE (CHOOSE k \in hits : \A h \in hits : k <= h) - 1

\* appointments.find(a => a.id === id)?.status || 'scheduled'
statusOr(appointments, id) ==
    LET i == findIndex(appointments, id)
    IN  IF i = -1 \/ appointments[i + 1].status = <<>>
        THEN Scheduled
        ELSE appointments[i + 1].status

\* A catch of updateStatus that leaves the local state as it is
revertedNot(d, id, appointments) == [d EXCEPT !.error = UpdateFailed]

\* The catch of updateStatus: the local state is reverted, the error is set
reverted(d, id, appointments) ==
    [d EXCEPT !.appointments = withStatus(@, id, statusOr(appointments, id)),
              !.error = UpdateFailed]

\* The user sheet as the dashboard sees it: the status cells of its data rows
ShownSheets == SeqsUpTo({<<>>, Completed}, MaxShown)

InitDashboard ==
    /\ InitSync
    /\ auth = NoAuth
    /\ probe = NoProbe
    /\ dashboard \in [pc           : {"constructed"},
                      apiKey       : BOOLEAN,
                      sheetUrl     : {<<>>, SheetS, <<"/">>},
                      remote       : ShownSheets,
                      appointments : {<<>>},
                      loading      : {TRUE},
                      error        : {NULL},
                      fetches      : {0},
                      fetching     : {0},
                      calls        : {<<>>}]

\* fetchAppointments up to its fetch
fetchAppointments(d) ==
    LET begun == [d EXCEPT !.fetches = @ + 1]
    IN  IF ~d.apiKey
        THEN [begun EXCEPT !.error = NotConfigured, !.loading = FALSE]
        ELSE IF d.sheetUrl = <<>>
        THEN [begun EXCEPT !.appointments = DemoAppointments,
                            !.loading = FALSE]
        ELSE IF extractUsersSheetId(d.sheetUrl) = NULL
        THEN [begun EXCEPT !.error = InvalidUrl, !.loading = FALSE]
        ELSE [begun EXCEPT !.loading = TRUE, !.error = NULL,
                            !.fetching = @ + 1]

\* The effect of useGoogleSheets on mount calls fetchAppointments
DashboardMount ==
    /\ dashboard.pc = "constructed"
    /\ dashboard' = fetchAppointments([dashboard EXCEPT !.pc = "mounted"])
    /\ UNCHANGED <<syncVars, auth, probe>>

\* refetch, the Refresh button of the Dashboard
Refetch ==
    /\ dashboard.pc = "mounted"
    /\ ~dashboard.loading
    /\ dashboard.fetches < MaxFetches
    /\ dashboard' = fetchAppointments(dashboard)
    /\ UNCHANGED <<syncVars, auth, probe>>

\* fetchAppointments from the response of the user sheet to its end
FetchResponse(ok) ==
    /\ dashboard.pc = "mounted"
    /\ dashboard.fetching > 0
    /\ dashboard' =
          IF ok
          THEN [dashboard EXCEPT
                  !.fetching = @ - 1,
                  !.appointments = shownAppointments(dashboard.remote),
                  !.error = NULL,
                  !.loading = FALSE]
          ELSE [dashboard EXCEPT
                  !.fetching = @ - 1,
                  !.error = HttpError,
                  !.loading = FALSE]
    /\ UNCHANGED <<syncVars, auth, probe>>

\* updateStatus up to its PUT; appointments is the list of its closure
UpdateStatus(id, status) ==
    /\ dashboard.pc = "mounted"
    /\ Len(dashboard.calls) < MaxUpdates
    /\ LET appointments == dashboard.appointments
           optimistic == withStatus(appointments, id, status)
           call == [id |-> id, status |-> status,
                    appointments |-> appointments,
                    optimistic |-> optimistic,
                    rowIndex |-> findIndex(appointments, id) + 2,
                    pc |-> "put", outcome |-> "pending"]
           d == [dashboard EXCEPT !.appointments = optimistic]
       IN  dashboard' =
             IF ~d.apiKey \/ d.sheetUrl = <<>>
             THEN [d EXCEPT !.calls = Append(@, [call EXCEPT
                                                   !.pc = "returned",
                                                   !.outcome = "local"])]
             ELSE IF \/ extractUsersSheetId(d.sheetUrl) = NULL
                     \/ findIndex(appointments, id) = -1
             THEN [reverted(d, id, appointments) EXCEPT
                     !.calls = Append(@, [call EXCEPT !.pc = "returned",
                                                      !.outcome = "thrown"])]
             ELSE [d EXCEPT !.calls = Append(@, call)]
    /\ UNCHANGED <<syncVars, auth, probe>>

\* The PUT of one status cell to Sheet1!H<rowIndex>
putStatus(remote, rowIndex, status) ==
    [k \in 1..(IF rowIndex - 1 > Len(remote) THEN rowIndex - 1 ELSE Len(remote)) |->
        IF k = rowIndex - 1 THEN status
        ELSE IF k <= Len(remote) THEN remote[k] ELSE <<>>]

\* updateStatus from the response of its PUT to its end
UpdateResponse(c, ok) ==
    /\ c \in DOMAIN dashboard.calls
    /\ dashboard.calls[c].pc = "put"
    /\ LET call == dashboard.calls[c]
       IN  dashboard' =
             IF ok
             THEN [dashboard EXCEPT
                     !.remote = putStatus(@, call.rowIndex, call.status),
                     !.calls[c].pc = "returned",
                     !.calls[c].outcome = "ok"]
             ELSE [reverted(dashboard, call.id, call.appointments) EXCEPT
                     !.calls[c].pc = "returned",
                     !.calls[c].outcome = "failed"]
    /\ UNCHANGED <<syncVars, auth, probe>>

NextDashboard ==
    \/ DashboardMount
    \/ Refetch
    \/ \E ok \in BOOLEAN : FetchResponse(ok)
    \/ \E id \in {<<"1">>, <<"2">>, <<"3">>}, status \in AppointmentStatus :
          UpdateStatus(id, status)
    \/ \E c \in 1..MaxUpdates, ok \in BOOLEAN : UpdateResponse(c, ok)

SpecDashboard == InitDashboard /\ [][NextDashboard]_vars

----------------------------------------------------------------------------
(* The optimistic update of updateStatus *)

\* updateStatus is called in this step; the call is the last of calls'
UpdateCalled == Len(dashboard'.calls) = Len(dashboard.calls) + 1

\* The status that list a shows for id, <<>> when the id is not in the list
StatusIn(a, id) ==
    IF \E k \in DOMAIN a : a[k].id = id
    THEN a[CHOOSE k \in DOMAIN a : a[k].id = id].status
    ELSE <<>>

\* Lists a and b differ at most in the status of id
SameButFor(a, b, id) ==
    /\ DOMAIN a = DOMAIN b
    /\ \A k \in DOMAIN a :
          /\ a[k].id = b[k].id
          /\ a[k].id # id => a[k] = b[k]

C25_ChangedAtOnce ==
    UpdateCalled =>
        LET call == dashboard'.calls[Len(dashboard'.calls)]
        IN  /\ call.appointments = dashboard.appointments
            /\ SameButFor(call.optimistic, dashboard.appointments, call.id)
            /\ \A k \in DOMAIN call.optimistic :
                  call.optimistic[k].id = call.id =>
                      call.optimistic[k].status = call.status
            /\ call.outcome \in {"pending", "local"} =>
                  dashboard'.appointments = call.optimistic

C25_FailureReverts ==
    \A c \in DOMAIN dashboard.calls :
        (dashboard.calls[c].pc = "put" /\ dashboard'.calls[c].outcome = "failed") =>
            LET call == dashboard.calls[c]
            IN  /\ SameButFor(dashboard'.appointments, dashboard.appointments,
                              call.id)
                /\ \A k \in DOMAIN dashboard'.appointments :
                      dashboard'.appointments[k].id = call.id =>
                          dashboard'.appointments[k].status
                              = StatusIn(call.appointments, call.id)
                /\ dashboard'.error = UpdateFailed

C25_SuccessKeeps ==
    \A c \in DOMAIN dashboard.calls :
        (dashboard.calls[c].pc = "put" /\ dashboard'.calls[c].outcome = "ok") =>
            /\ dashboard'.appointments = dashboard.appointments
            /\ dashboard'.error = dashboard.error

----------------------------------------------------------------------------
(* The session of AuthProvider *)

\* No call of login or register is in flight
AuthIdle ==
    /\ auth.pc = "mounted"
    /\ \A c \in DOMAIN auth.calls : auth.calls[c].pc = "returned"

\* The user in memory and the record stored under healthcare_user agree
SessionAgrees ==
    \/ auth.user = NoUser /\ auth.session = NULL
    \/ /\ auth.user # NoUser
       /\ auth.session # NULL
       /\ JSONparse(auth.session).email = auth.user[1].email
       /\ JSONparse(auth.session).appointmentsSheetUrl
             = auth.user[1].appointmentsSheetUrl

\* Call c of login or register returns in this step
Returns(c) == auth.calls[c].pc # "returned" /\ auth'.calls[c].pc = "returned"

C26_AgreeWhenIdle == AuthIdle => (SessionAgrees /\ ~auth.isLoading)

C26_NotLoadingAtReturn ==
    /\ \A c \in DOMAIN auth.calls : Returns(c) => ~auth'.isLoading
    /\ (Len(auth'.calls) > Len(auth.calls)
           /\ auth'.calls[Len(auth'.calls)].pc = "returned") => ~auth'.isLoading

(* C26: whenever the login, register and logout calls made so far have all *)
(* completed, the user in memory and the record stored under               *)
(* healthcare_user are both absent or hold the same email and sheet        *)
(* reference, and isLoading is false; isLoading is false in the state in   *)
(* which a login or register call returns.                                 *)
C26_SessionMatchesUser ==
    []C26_AgreeWhenIdle /\ [][C26_NotLoadingAtReturn]_vars

\* A register that signed the user in, a logout, a login that failed
C26_Witness ==
    /\ AuthIdle
    /\ Len(auth.calls) = 2
    /\ auth.calls[1].op = "register" /\ auth.calls[1].returned = "true"
    /\ auth.calls[2].op = "login" /\ auth.calls[2].returned = "false"
    /\ auth.calls[2].userBefore = NoUser
    /\ auth.user = NoUser
    /\ auth.session = NULL

----------------------------------------------------------------------------
(* The outcome of login *)

\* Call c is a login that returns in this step, with the key and the users
\* sheet configured
LoginReturns(c) ==
    /\ configured
    /\ c \in DOMAIN auth'.calls
    /\ auth'.calls[c].op = "login"
    /\ auth'.calls[c].pc = "returned"
    /\ c \in DOMAIN auth.calls => auth.calls[c].pc # "returned"

\* The read of the directory succeeded and a row has the email and password
RowMatches(call) ==
    /\ call.readOk
    /\ \E k \in DOMAIN call.rows :
          /\ call.rows[k].email = call.email
          /\ call.rows[k].password = call.password

(* C27 as stated: a configured login returns true exactly if its read of   *)
(* the directory succeeds and a row has the given email and password; when *)
(* it returns false the user and the stored session are those of before    *)
(* the call and the error is set; when it returns true the error is empty. *)
C27_LoginOutcome ==
    [][\A c \in 1..MaxCalls :
          LoginReturns(c) =>
              LET call == auth'.calls[c]
              IN  /\ call.returned = "true" <=> RowMatches(call)
                  /\ call.returned = "false" =>
                        /\ auth'.user = call.userBefore
                        /\ auth'.session = call.sessionBefore
                        /\ auth'.error # NULL
                  /\ call.returned = "true" => auth'.error = NULL]_vars

\* The steps of a login that does not return true leave the user and the
\* stored session alone, its return sets the error; the return of true
\* leaves the error alone
C27_StepsOfLogin ==
    \A c \in 1..MaxCalls :
        /\ LoginReturns(c) =>
              LET call == auth'.calls[c]
              IN  /\ call.returned = "true" <=> RowMatches(call)
                  /\ call.returned = "false" =>
                        /\ auth'.user = auth.user
                        /\ auth'.session = auth.session
                        /\ auth'.error # NULL
                  /\ (call.returned = "true" /\ c \in DOMAIN auth.calls) =>
                        auth'.error = auth.error
                  /\ ~call.overlapped =>
                        /\ call.returned = "false" =>
                              /\ auth'.user = call.userBefore
                              /\ auth'.session = call.sessionBefore
                        /\ call.returned = "true" => auth'.error = NULL
        /\ (c \in DOMAIN auth'.calls /\ c \notin DOMAIN auth.calls
               /\ auth'.calls[c].op = "login"
               /\ auth'.calls[c].pc # "returned") =>
              /\ auth'.user = auth.user
              /\ auth'.session = auth.session
              /\ auth'.error = NULL

(* C27 amended: the same, where "as before the call" and "the error is     *)
(* empty" hold for a login that no other login, register or logout call    *)
(* overlaps; in every execution the login that returns false has itself    *)
(* changed neither the user nor the stored session and has set the error,  *)
(* and the login that returns true has not set the error.                  *)
C27_LoginOutcomeUnlessOverlapped ==
    [][C27_StepsOfLogin]_vars

\* A login that signed the user in, then a login that failed and left the
\* user signed in, with the error set
C27_Witness ==
    /\ configured
    /\ Len(auth.calls) = 2
    /\ \A c \in 1..2 :
          /\ auth.calls[c].op = "login"
          /\ auth.calls[c].pc = "returned"
          /\ ~auth.calls[c].overlapped
          /\ auth.calls[c].readOk
    /\ auth.calls[1].returned = "true"
    /\ auth.calls[2].returned = "false"
    /\ auth.calls[2].userBefore # NoUser
    /\ auth.user = auth.calls[2].userBefore
    /\ auth.session = auth.calls[2].sessionBefore
    /\ auth.error = InvalidCredentials

====
